---- MODULE Spec2Model ----
(***************************************************************************)
(* Handle-based entity manager of src/Handles/p2.cpp: atoms (storage       *)
(* cells), marks (indirection records with a control counter), handles     *)
(* (mark index + counter snapshot) and the Manager operations create,      *)
(* destroy, update and refresh.                                            *)
(*                                                                         *)
(* Vector indices are 0-based as in the source: atoms and marks are        *)
(* functions over 0 .. capacity-1.  refresh() is modelled statement by     *)
(* statement (pc, iD, iA, intSizeNext are its program counter and locals); *)
(* create, destroy and update are single steps, taken only between two     *)
(* refreshes (the manager is single-threaded).                             *)
(***************************************************************************)
EXTENDS Integers, FiniteSets, Sequences, TLC

VARIABLES
    atoms,        \* Manager::atoms : 0..capacity-1 -> [data, markIdx, alive]
    marks,        \* Manager::marks : 0..capacity-1 -> [atomIdx, ctr, ctrIndet]
    size,         \* Manager::size
    sizeNext,     \* Manager::sizeNext
    handles,      \* every Handle value returned by create() so far
    pc,           \* "idle" between operations, else the position inside refresh()
    iD,           \* refresh(): left -> right pointer
    iA,           \* refresh(): right -> left pointer
    intSizeNext,  \* refresh(): sizeNext when refresh() started
    op,           \* the last completed operation and its Handle argument
    updated,      \* positions on which T::update ran in the last update(), in order
    pre,          \* the store as refresh() found it (kept until the next operation)
    nextId        \* number of create() calls so far (names the next entity)

vars == <<atoms, marks, size, sizeNext, handles, pc, iD, iA, intSizeNext,
          op, updated, pre, nextId>>

store == <<atoms, marks, size, sizeNext>>

----------------------------------------------------------------------------
(* Bounds of the model *)

\* create() is called at most MaxCreates times
MaxCreates == 2

\* update() is not called once a constructed entity's health is MaxOverkill
\* below 1 (health is an int that every update() decrements)
MaxOverkill == 0

(* Program constants *)

\* createAtom: growBy(10)
GrowAmount == 10

\* Entity(): health(10 + (rndEngine() % 50))
HealthBase == 10
HealthSpread == 50

\* HCtr = int
IntMax == 2147483647
IntMin == -2147483647 - 1

----------------------------------------------------------------------------
(* Data *)

\* The aligned storage of an atom that holds no constructed T (never
\* constructed, or destructed by deinit): its bytes are indeterminate.
NoPayload == [id |-> -1, health |-> 0]

NoHandle == [markIdx |-> -1, ctr |-> 0, id |-> -1]

NoPre ==
    [atoms |-> <<>>, marks |-> <<>>, size |-> -1, sizeNext |-> -1, again |-> FALSE]

\* Atom(HIdx mMarkIdx): markIdx{mMarkIdx}, alive{false}, data not initialised
Atom(mMarkIdx) == [data |-> NoPayload, markIdx |-> mMarkIdx, alive |-> FALSE]

\* Mark(HIdx mAtomIdx): atomIdx{mAtomIdx}; ctr has no initialiser, so its
\* value is indeterminate.  ctrIndet says that no value was read or written
\* yet; the value is chosen (from GarbageCtr) at the first read.
Mark(mAtomIdx) == [atomIdx |-> mAtomIdx, ctr |-> 0, ctrIndet |-> TRUE]

\* the values an uninitialised int may turn out to hold
GarbageCtr == {0, IntMax}

\* the values rndEngine() may return in Entity()
RndValues == {0, 1, HealthSpread}

\* Entity(): health(10 + (rndEngine() % 50))
Entity(id, rnd) == [id |-> id, health |-> HealthBase + (rnd % HealthSpread)]

Built(a) == a.data # NoPayload

\* (mutant) setDead flips the flag instead of clearing it
setDeadToggle(a) == [a EXCEPT !.alive = ~@]

\* Atom::setDead: alive = false
setDead(a) == [a EXCEPT !.alive = FALSE]

\* Atom::deinit: get().~T()
deinit(a) == [a EXCEPT !.data = NoPayload]

getCapacity == Cardinality(DOMAIN atoms)

\* (mutant) the reclaiming loop forgets ++ctr
IncCtrNone(c) == c

\* ++ctr on an int: signed overflow wraps on two's complement hardware
IncCtr(c) == IF c = IntMax THEN IntMin ELSE c + 1

\* Manager::getMarkFromAtom: index of the mark controlling mAtom
getMarkFromAtom(mAtom) == mAtom.markIdx

\* Manager::getAtomFromMark: index of the atom controlled by mMark
getAtomFromMark(mMark) == mMark.atomIdx

\* Handle::isAlive
isAlive(h) == marks[h.markIdx].ctr = h.ctr

----------------------------------------------------------------------------
(* Initial state: Manager<Entity> m; *)

Init ==
    /\ atoms = <<>>
    /\ marks = <<>>
    /\ size = 0
    /\ sizeNext = 0
    /\ handles = {}
    /\ pc = "idle"
    /\ iD = 0
    /\ iA = 0
    /\ intSizeNext = 0
    /\ op = [name |-> "init", h |-> NoHandle]
    /\ updated = <<>>
    /\ pre = NoPre
    /\ nextId = 0

----------------------------------------------------------------------------
(* create *)

\* Manager::growBy: the vectors after emplace_back(i) for i in old .. new-1
growAtoms(mAmount) ==
    [i \in 0 .. (getCapacity + mAmount - 1) |->
        IF i < getCapacity THEN atoms[i] ELSE Atom(i)]

\* (mutant) the new marks are numbered from 0 within the added block
growMarksRelative(mAmount) ==
    [i \in 0 .. (getCapacity + mAmount - 1) |->
        IF i < getCapacity THEN marks[i] ELSE Mark(i - getCapacity)]

growMarks(mAmount) ==
    [i \in 0 .. (getCapacity + mAmount - 1) |->
        IF i < getCapacity THEN marks[i] ELSE Mark(i)]

\* createAtom: if(getCapacity() <= sizeNext) growBy(10);
mustGrow == getCapacity <= sizeNext

\* (mutant) the new entity is constructed at the end of the active range
createIdxSize == size

\* createAtom: auto& atom(atoms[sizeNext]);
createIdx == sizeNext

\* (mutant) create() starts every counter afresh instead of reading it
readCtrReset(mMark, garbage) == 0

\* (mutant) create() starts a new generation: it increments the counter of
\* the mark it reuses
readCtrBump(mMark, garbage) ==
    IF mMark.ctrIndet THEN garbage ELSE IncCtr(mMark.ctr)

\* createHandleFromAtom: the read of getMarkFromAtom(mAtom).ctr.  A counter
\* that was never written yields the value `garbage`.
readCtr(mMark, garbage) == IF mMark.ctrIndet THEN garbage ELSE mMark.ctr

\* createHandleFromAtom: Handle<T>{*this, mAtom.markIdx, getMarkFromAtom(mAtom).ctr}
\* mCtr is the value the read of the mark's counter yields.
createHandleFromAtom(mAtom, mCtr, id) ==
    [markIdx |-> mAtom.markIdx, ctr |-> mCtr, id |-> id]

\* Manager::create = createHandleFromAtom(createAtom(args...)).
\* rnd is the value rndEngine() returns in Entity(); garbage is the value an
\* indeterminate counter turns out to hold when createHandleFromAtom reads it.
create(rnd, garbage) ==
    LET A1   == IF mustGrow THEN growAtoms(GrowAmount) ELSE atoms
        M1   == IF mustGrow THEN growMarks(GrowAmount) ELSE marks
        at   == createIdx
        atom == [A1[at] EXCEPT !.data = Entity(nextId, rnd), !.alive = TRUE]
        m    == getMarkFromAtom(atom)
        ctr  == readCtr(M1[m], garbage)
    IN  /\ pc = "idle"
        /\ atoms' = [A1 EXCEPT ![at] = atom]
        /\ marks' = [M1 EXCEPT ![m] = [atomIdx |-> at, ctr |-> ctr, ctrIndet |-> FALSE]]
        /\ sizeNext' = sizeNext + 1
        /\ handles' = handles \cup {createHandleFromAtom(atom, ctr, nextId)}
        /\ nextId' = nextId + 1
        /\ op' = [name |-> "create", h |-> createHandleFromAtom(atom, ctr, nextId)]
        /\ pre' = NoPre
        /\ UNCHANGED <<size, pc, iD, iA, intSizeNext, updated>>

Create ==
    /\ nextId < MaxCreates
    /\ \E rnd \in RndValues, garbage \in GarbageCtr : create(rnd, garbage)

----------------------------------------------------------------------------
(* destroy *)

\* (mutant) destroy() destructs the payload at once instead of leaving it
\* to refresh()
destroyEager(h) ==
    /\ pc = "idle"
    /\ atoms' = [atoms EXCEPT ![getAtomFromMark(marks[h.markIdx])] = deinit(setDead(@))]
    /\ op' = [name |-> "destroy", h |-> h]
    /\ pre' = NoPre
    /\ UNCHANGED <<marks, size, sizeNext, handles, pc, iD, iA, intSizeNext,
                   updated, nextId>>

\* (mutant) destroy() takes the mark index for the position of the atom
destroyIdxDirect(mMarkIdx) == mMarkIdx

\* Manager::destroy(mMarkIdx): getAtomFromMark(marks[mMarkIdx]).setDead();
\* the index of the atom whose alive flag is cleared
destroyIdx(mMarkIdx) == getAtomFromMark(marks[mMarkIdx])

\* Handle::destroy: manager->destroy(markIdx), with no validity check
destroy(h) ==
    /\ pc = "idle"
    /\ atoms' = [atoms EXCEPT ![destroyIdx(h.markIdx)] = setDead(@)]
    /\ op' = [name |-> "destroy", h |-> h]
    /\ pre' = NoPre
    /\ UNCHANGED <<marks, size, sizeNext, handles, pc, iD, iA, intSizeNext,
                   updated, nextId>>

Destroy == \E h \in handles : destroy(h)

----------------------------------------------------------------------------
(* update *)

\* (mutant) update() skips the atoms that are marked dead
EntityUpdateAliveOnly(a, garbageDead) ==
    IF ~a.alive THEN a
    ELSE IF Built(a)
    THEN LET dec == [a EXCEPT !.data.health = @ - 1]
         IN  IF dec.data.health <= 0 THEN setDead(dec) ELSE dec
    ELSE IF garbageDead THEN setDead(a) ELSE a

\* Entity::update on a constructed entity: if(--health <= 0) setDead();
\* on storage that holds no constructed entity the read of health is
\* indeterminate: setDead() is called (garbage <= 0) or not.
EntityUpdate(a, garbageDead) ==
    IF Built(a)
    THEN LET dec == [a EXCEPT !.data.health = @ - 1]
         IN  IF dec.data.health <= 0 THEN setDead(dec) ELSE dec
    ELSE IF garbageDead THEN setDead(a) ELSE a

\* Manager::update: for(auto& e : atoms) -- the positions the loop visits
updateRange == 0 .. (getCapacity - 1)

\* the positions of updateRange in ascending order
RECURSIVE Ascending(_)
Ascending(S) ==
    IF S = {} THEN <<>>
    ELSE LET x == CHOOSE y \in S : \A z \in S : y <= z
         IN  <<x>> \o Ascending(S \ {x})

update(garbageDead) ==
    /\ pc = "idle"
    /\ \A i \in DOMAIN atoms :
          Built(atoms[i]) => atoms[i].data.health > 0 - MaxOverkill
    /\ atoms' = [i \in DOMAIN atoms |->
                    IF i \in updateRange
                    THEN EntityUpdate(atoms[i], garbageDead) ELSE atoms[i]]
    /\ updated' = Ascending(updateRange)
    /\ op' = [name |-> "update", h |-> NoHandle]
    /\ pre' = NoPre
    /\ UNCHANGED <<marks, size, sizeNext, handles, pc, iD, iA, intSizeNext, nextId>>

Update == \E garbageDead \in BOOLEAN : update(garbageDead)

----------------------------------------------------------------------------
(* refresh *)

\* (mutant) the right pointer starts at the end of the active range, so
\* that entities created since the last refresh() are not scanned
iAStartSize == size - 1

\* int iA{intSizeNext - 1};
iAStart == sizeNext - 1

\* const int intSizeNext(sizeNext); int iD{0}; int iA{intSizeNext - 1};
RefreshBegin ==
    /\ pc = "idle"
    /\ intSizeNext' = sizeNext
    /\ iD' = 0
    /\ iA' = iAStart
    /\ pre' = [atoms |-> atoms, marks |-> marks, size |-> size,
               sizeNext |-> sizeNext, again |-> (op.name = "refresh")]
    /\ pc' = "findDead"
    /\ op' = [name |-> "refresh", h |-> NoHandle]
    /\ UNCHANGED <<atoms, marks, size, sizeNext, handles, updated, nextId>>

\* (mutant) the left scan stops one position early: iD >= iA for iD > iA
FindDeadEarly ==
    /\ pc = "findDead"
    /\ IF iD >= iA THEN pc' = "finish" /\ iD' = iD
       ELSE IF ~atoms[iD].alive THEN pc' = "findAlive" /\ iD' = iD
       ELSE pc' = "findDead" /\ iD' = iD + 1
    /\ UNCHANGED <<atoms, marks, size, sizeNext, handles, iA, intSizeNext,
                   op, updated, pre, nextId>>

\* for(; true; ++iD) { if(iD > iA) goto finishRefresh; if(!atoms[iD].alive) break; }
FindDead ==
    /\ pc = "findDead"
    /\ IF iD > iA THEN pc' = "finish" /\ iD' = iD
       ELSE IF ~atoms[iD].alive THEN pc' = "findAlive" /\ iD' = iD
       ELSE pc' = "findDead" /\ iD' = iD + 1
    /\ UNCHANGED <<atoms, marks, size, sizeNext, handles, iA, intSizeNext,
                   op, updated, pre, nextId>>

\* (mutant) the right scan goes on when the pointers meet and stops only
\* when they have crossed
FindAliveStrict ==
    /\ pc = "findAlive"
    /\ IF iA < iD THEN pc' = "finish" /\ iA' = iA
       ELSE IF atoms[iA].alive THEN pc' = "swap" /\ iA' = iA
       ELSE pc' = "findAlive" /\ iA' = iA - 1
    /\ UNCHANGED <<atoms, marks, size, sizeNext, handles, iD, intSizeNext,
                   op, updated, pre, nextId>>

\* for(; true; --iA) { if(iA <= iD) goto finishRefresh; if(atoms[iA].alive) break; }
FindAlive ==
    /\ pc = "findAlive"
    /\ IF iA <= iD THEN pc' = "finish" /\ iA' = iA
       ELSE IF atoms[iA].alive THEN pc' = "swap" /\ iA' = iA
       ELSE pc' = "findAlive" /\ iA' = iA - 1
    /\ UNCHANGED <<atoms, marks, size, sizeNext, handles, iD, intSizeNext,
                   op, updated, pre, nextId>>

\* (mutant) a swap written as a = b; b = a, which loses atoms[i]
swapAtomsCopy(i, j) == [atoms EXCEPT ![i] = atoms[j], ![j] = atoms[j]]

\* std::swap(atoms[iD], atoms[iA]);
swapAtoms(i, j) == [atoms EXCEPT ![i] = atoms[j], ![j] = atoms[i]]

\* (mutant) the mark is looked up by the atom's position, not by its markIdx
fixMarksByPosition(swapped, i, j) == [marks EXCEPT ![i].atomIdx = i]

\* getMarkFromAtom(atoms[iD]).atomIdx = iD;  (on the swapped atoms `swapped`)
fixMarks(swapped, i, j) ==
    [marks EXCEPT ![getMarkFromAtom(swapped[i])].atomIdx = i]

\* std::swap(...); getMarkFromAtom(atoms[iD]).atomIdx = iD; ++iD; --iA;
Swap ==
    /\ pc = "swap"
    /\ atoms' = swapAtoms(iD, iA)
    /\ marks' = fixMarks(swapAtoms(iD, iA), iD, iA)
    /\ iD' = iD + 1
    /\ iA' = iA - 1
    /\ pc' = "findDead"
    /\ UNCHANGED <<size, sizeNext, handles, intSizeNext, op, updated, pre, nextId>>

\* (mutant) finishRefresh assigns size only
FinishSizeOnly ==
    /\ pc = "finish"
    /\ size' = iD
    /\ pc' = "deinit"
    /\ UNCHANGED <<atoms, marks, sizeNext, handles, iD, iA, intSizeNext, op,
                   updated, pre, nextId>>

\* finishRefresh: size = sizeNext = iD;
Finish ==
    /\ pc = "finish"
    /\ size' = iD
    /\ sizeNext' = iD
    /\ pc' = "deinit"
    /\ UNCHANGED <<atoms, marks, handles, iD, iA, intSizeNext, op, updated,
                   pre, nextId>>

\* (mutant) the counter of marks[iD] is incremented, not that of the atom's mark
deinitMarkByPosition(i) == i

\* the mark whose counter the deinit loop increments for position i
deinitMark(i) == getMarkFromAtom(atoms[i])

\* for(; iD < intSizeNext; ++iD) { atoms[iD].deinit(); ++(getMarkFromAtom(atoms[iD]).ctr); }
\* and, when the loop is over, the return of refresh()
Deinit ==
    /\ pc = "deinit"
    /\ IF iD < intSizeNext
       THEN /\ atoms' = [atoms EXCEPT ![iD] = deinit(@)]
            /\ marks' = [marks EXCEPT ![deinitMark(iD)].ctr = IncCtr(@)]
            /\ iD' = iD + 1
            /\ UNCHANGED <<pc, iA, intSizeNext, op>>
       ELSE /\ pc' = "idle"
            /\ op' = [name |-> "refresh", h |-> NoHandle]
            /\ iD' = 0
            /\ iA' = 0
            /\ intSizeNext' = 0
            /\ UNCHANGED <<atoms, marks>>
    /\ UNCHANGED <<size, sizeNext, handles, updated, pre, nextId>>

Refresh == RefreshBegin \/ FindDead \/ FindAlive \/ Swap \/ Finish \/ Deinit

----------------------------------------------------------------------------

Next == Create \/ Destroy \/ Update \/ Refresh

Spec == Init /\ [][Next]_vars

----------------------------------------------------------------------------
(* Handle queries: isAlive() and operator*, operator-> *)

\* (mutant) getAtom() returns without checking the handle
getAtomAssertNone(h) == TRUE

\* Handle::getAtom: the condition of assert(manager != nullptr && isAlive());
\* manager is bound to a Manager by the only constructor of Handle
getAtomAssert(h) == isAlive(h)

\* a call of h.isAlive(): it returns isAlive(h) and assigns nothing
IsAliveCall(h) ==
    /\ pc = "idle"
    /\ op' = [name |-> "isAlive", h |-> h]
    /\ pre' = NoPre
    /\ UNCHANGED <<atoms, marks, size, sizeNext, handles, pc, iD, iA,
                   intSizeNext, updated, nextId>>

\* a call of *h or h->: getAtom().get().  A failed assert aborts the
\* program; otherwise the call returns the payload of the atom of the
\* handle's mark.  Nothing is assigned.
Deref(h) ==
    /\ pc = "idle"
    /\ pc' = IF getAtomAssert(h) THEN "idle" ELSE "aborted"
    /\ op' = [name |-> "deref", h |-> h]
    /\ pre' = NoPre
    /\ UNCHANGED <<atoms, marks, size, sizeNext, handles, iD, iA,
                   intSizeNext, updated, nextId>>

\* A query assigns nothing to the store, so a query that follows a query
\* reaches the state the second one reaches on its own: queries are taken
\* after a mutating call only.
Query ==
    /\ op.name \notin {"isAlive", "deref"}
    /\ \E h \in handles : IsAliveCall(h) \/ Deref(h)

NextQuery == Next \/ Query

\* the store driven by the mutating operations and the handle queries
SpecQuery == Init /\ [][NextQuery]_vars

----------------------------------------------------------------------------
(* The run of main(): entities are created, refresh() makes them active,
   some are destroyed through their handles, update() runs, and refresh()
   reclaims the destroyed ones. *)

ScenarioCreates == 5

\* rndEngine() values for which every entity starts with health HealthBase
ScenarioRnd == {0, HealthSpread}

\* auto h1(m.create()); ... before the first refresh()
ScenarioCreate ==
    /\ op.name \in {"init", "create"}
    /\ nextId < ScenarioCreates
    /\ \E rnd \in ScenarioRnd, garbage \in GarbageCtr : create(rnd, garbage)

\* every created entity is in the active range: the first refresh() is done
\* and nothing has been reclaimed
ScenarioActive == pc = "idle" /\ nextId > 0 /\ size = nextId

\* h.destroy() after the first refresh()
ScenarioDestroy == ScenarioActive /\ Destroy

\* m.update(), once
ScenarioUpdate ==
    /\ ScenarioActive
    /\ \A i \in DOMAIN atoms : Built(atoms[i]) => atoms[i].data.health = HealthBase
    /\ Update

\* m.refresh()
ScenarioRefresh ==
    \/ /\ nextId > 0
       /\ op.name # "refresh" \/ ScenarioActive
       /\ RefreshBegin
    \/ FindDead \/ FindAlive \/ Swap \/ Finish \/ Deinit

ScenarioNext ==
    ScenarioCreate \/ ScenarioDestroy \/ ScenarioUpdate \/ ScenarioRefresh

SpecScenario == Init /\ [][ScenarioNext]_vars

----------------------------------------------------------------------------
(* Filling the store past its first capacity: enough create() calls to make
   growBy run a second time. *)

GrowthCreates == 11

GrowthCreate ==
    /\ nextId < GrowthCreates
    /\ \E rnd \in ScenarioRnd, garbage \in GarbageCtr : create(rnd, garbage)

\* h.destroy() of the entity that filled the last position of the first
\* block of GrowAmount atoms
GrowthDestroy ==
    \E h \in handles : h.id = GrowAmount - 1 /\ isAlive(h) /\ destroy(h)

\* m.refresh() once the first block of atoms is full
GrowthRefresh ==
    \/ sizeNext >= GrowAmount /\ RefreshBegin
    \/ FindDead \/ FindAlive \/ Swap \/ Finish \/ Deinit

\* m.update(), once, after growBy has run a second time
GrowthUpdate ==
    /\ getCapacity > GrowAmount
    /\ \A i \in DOMAIN atoms : Built(atoms[i]) => atoms[i].data.health = HealthBase
    /\ Update

GrowthNext == GrowthCreate \/ GrowthDestroy \/ GrowthUpdate \/ GrowthRefresh

SpecGrowth == Init /\ [][GrowthNext]_vars

----------------------------------------------------------------------------
(* Allocation failure in growBy: atoms.reserve or marks.reserve throws
   std::bad_alloc.  growBy, createAtom and create are not noexcept, so the
   exception leaves create(). *)

\* the places in growBy where an allocation can fail; after the two
\* reserve calls emplace_back does not allocate
GrowFailures == {"atoms.reserve", "marks.reserve"}

\* (mutant) growBy written with resize: the atoms are appended before the
\* allocation for the marks is tried
growByFailedResize(mAmount, failAt) ==
    [atoms |-> IF failAt = "marks.reserve" THEN growAtoms(mAmount) ELSE atoms,
     marks |-> marks]

\* the two vectors when growBy is left by an exception thrown at failAt:
\* vector::reserve either succeeds or changes nothing, and a successful
\* atoms.reserve changes no element and not atoms.size()
growByFailed(mAmount, failAt) == [atoms |-> atoms, marks |-> marks]

\* a call of create() in which growBy throws: every statement of createAtom
\* after `if(getCapacity() <= sizeNext) growBy(10);` is skipped
createThrows(failAt) ==
    /\ pc = "idle"
    /\ mustGrow
    /\ atoms' = growByFailed(GrowAmount, failAt).atoms
    /\ marks' = growByFailed(GrowAmount, failAt).marks
    /\ op' = [name |-> "createThrows", h |-> NoHandle]
    /\ pre' = NoPre
    /\ UNCHANGED <<size, sizeNext, handles, pc, iD, iA, intSizeNext, updated,
                   nextId>>

CreateThrows == \E failAt \in GrowFailures : createThrows(failAt)

AllocNext == GrowthNext \/ CreateThrows

\* the runs of SpecGrowth in which any growth may fail
SpecAlloc == Init /\ [][AllocNext]_vars

----------------------------------------------------------------------------
(* main() as written: three create() calls, refresh(), and the loop
   while(h1.isAlive() || h2.isAlive() || h3.isAlive())
   { m.update(); h3.destroy(); m.refresh(); }.
   The position in main() is read off the last call, op. *)

\* the number of entities main() creates: h1, h2, h3
MainEntities == 3

\* auto h1(m.create()); auto h2(m.create()); auto h3(m.create());
MainCreate ==
    /\ op.name \in {"init", "create"}
    /\ nextId < MainEntities
    /\ \E rnd \in RndValues, garbage \in GarbageCtr : create(rnd, garbage)

\* h1.isAlive() || h2.isAlive() || h3.isAlive()
MainLoopTest == \E h \in handles : isAlive(h)

\* m.update(): the first statement of the loop body, after the loop test
MainUpdate ==
    /\ op.name = "refresh"
    /\ MainLoopTest
    /\ Update

\* h3.destroy()
MainDestroy ==
    /\ op.name = "update"
    /\ \E h \in handles : h.id = MainEntities - 1 /\ destroy(h)

\* m.refresh(): before the loop, and as the last statement of its body
MainRefresh ==
    \/ /\ nextId = MainEntities
       /\ op.name \in {"create", "destroy"}
       /\ RefreshBegin
    \/ FindDead \/ FindAlive \/ Swap \/ Finish \/ Deinit

MainNext == MainCreate \/ MainUpdate \/ MainDestroy \/ MainRefresh

\* main() runs on: no statement that can be executed is put off forever
SpecMain == Init /\ [][MainNext]_vars /\ WF_vars(MainNext)

\* the loop test has failed: main() is past the loop
MainDone ==
    /\ pc = "idle"
    /\ op.name = "refresh"
    /\ nextId = MainEntities
    /\ ~MainLoopTest

----------------------------------------------------------------------------
(* Vocabulary of the properties *)

\* a step that is one whole call of h.destroy()
DestroyStep(h) ==
    pc = "idle" /\ pc' = "idle" /\ op' = [name |-> "destroy", h |-> h]

\* a step that is one whole call of update()
UpdateStep == pc = "idle" /\ pc' = "idle" /\ op'.name = "update"

\* a step that is one whole call of create()
CreateStep == pc = "idle" /\ pc' = "idle" /\ op'.name = "create"

\* refresh() has just returned, and pre is the store it started from
Refreshed == pc = "idle" /\ op.name = "refresh"

\* the atoms that hold the payload constructed by the id-th create()
SlotsOf(id) == {s \in DOMAIN atoms : atoms[s].data.id = id}

\* the alive flags of all atoms
AliveFlags == [s \in DOMAIN atoms |-> atoms[s].alive]

----------------------------------------------------------------------------
(* C1: destroy() through a Handle that is already invalid is a no-op: it
   changes no atom's alive flag. *)
C1_InvalidDestroyNoOp ==
    [][\A h \in handles :
          (DestroyStep(h) /\ ~isAlive(h)) => AliveFlags' = AliveFlags]_vars

(* C2: between operations, atoms and marks refer to one another: for every
   atom index s, marks[atoms[s].markIdx].atomIdx = s, and for every mark
   index m, atoms[marks[m].atomIdx].markIdx = m. *)
C2_Bijection ==
    pc = "idle" =>
       /\ \A s \in DOMAIN atoms : marks[atoms[s].markIdx].atomIdx = s
       /\ \A m \in DOMAIN marks : atoms[marks[m].atomIdx].markIdx = m

(* C3: update() runs the payload's update exactly once on each position of
   the active range 0 .. size-1, in ascending order, and on no other. *)
C3_UpdateActiveRange ==
    (pc = "idle" /\ op.name = "update") =>
        updated = Ascending(0 .. (size - 1))

\* the entities (ids) whose atom refresh() found alive / dead when it started
PreAlive == {pre.atoms[s].data.id : s \in {t \in 0 .. (pre.sizeNext - 1) : pre.atoms[t].alive}}
PreDead == {pre.atoms[s].data.id : s \in {t \in 0 .. (pre.sizeNext - 1) : ~pre.atoms[t].alive}}

\* h.isAlive() when refresh() started
PreValid(h) == pre.marks[h.markIdx].ctr = h.ctr

(* C4: precise invalidation.  A Handle is valid when create() returns it; no
   create, destroy or update changes the validity of any Handle; a Handle
   loses validity only in the reclaiming loop of a refresh() that found its
   entity's atom dead; and when refresh() has returned, exactly the Handles
   that were valid and whose entity's atom was alive at its start are valid. *)
C4_PreciseInvalidation ==
    /\ [](Refreshed =>
            \A h \in handles : isAlive(h) <=> (PreValid(h) /\ h.id \in PreAlive))
    /\ [][/\ \A h \in handles' \ handles : isAlive(h)'
          /\ (pc = "idle" /\ pc' = "idle") =>
                 \A h \in handles : isAlive(h)' <=> isAlive(h)
          /\ \A h \in handles :
                 (isAlive(h) /\ ~isAlive(h)') => (pc = "deinit" /\ h.id \in PreDead)
         ]_vars

\* refresh() returned having invalidated one Handle and kept another valid
C4_Witness ==
    /\ Refreshed
    /\ \E h1, h2 \in handles :
          /\ PreValid(h1) /\ ~isAlive(h1) /\ h1.id \in PreDead
          /\ PreValid(h2) /\ isAlive(h2) /\ h2.id \in PreAlive

(* C5: Handle validity is one-way: a Handle whose isAlive() is false stays
   invalid after every step, also when its mark and atom are used again. *)
C5_ValidityOneWay ==
    [][\A h \in handles : ~isAlive(h) => ~isAlive(h)']_vars

\* an invalid Handle whose mark now serves a newer, valid Handle
C5_Witness ==
    \E h, g \in handles :
        /\ h.markIdx = g.markIdx /\ h.id < g.id
        /\ ~isAlive(h) /\ isAlive(g)
        /\ marks[g.markIdx].atomIdx = h.markIdx

(* C6: active-range contiguity.  When refresh() has returned, size and
   sizeNext both equal the number of atoms of [0, old sizeNext) that were
   alive when it started, every atom of [0, size) is alive, and every atom of
   [size, old sizeNext) is dead and holds no constructed payload. *)
C6_ActiveRangeContiguity ==
    Refreshed =>
       /\ size = sizeNext
       /\ size = Cardinality({s \in 0 .. (pre.sizeNext - 1) : pre.atoms[s].alive})
       /\ \A s \in 0 .. (size - 1) : atoms[s].alive
       /\ \A s \in size .. (pre.sizeNext - 1) : ~atoms[s].alive /\ ~Built(atoms[s])

\* refresh() returned after moving an alive atom into a dead one's place
C6_Witness ==
    /\ Refreshed
    /\ 0 < size /\ size < pre.sizeNext
    /\ \E s \in 0 .. (size - 1) : atoms[s].data.id # pre.atoms[s].data.id

(* C7: between operations, every valid Handle reaches its own entity:
   atoms[marks[h.markIdx].atomIdx] holds the payload constructed by the
   create() call that returned h. *)
C7_HandleReachesOwnEntity ==
    pc = "idle" =>
       \A h \in handles :
          isAlive(h) => atoms[getAtomFromMark(marks[h.markIdx])].data.id = h.id

\* a valid Handle whose entity refresh() has moved away from its first atom
C7_Witness ==
    /\ Refreshed
    /\ \E h \in handles :
          /\ isAlive(h)
          /\ marks[h.markIdx].atomIdx # h.markIdx
          /\ atoms[marks[h.markIdx].atomIdx].data.id = h.id

(* C8: idempotent destroy.  destroy() through a valid Handle whose entity's
   atom is already dead (a second destroy() through the Handle or a copy of
   it, or a destroy() after the entity marked itself dead) leaves the store
   exactly as it was, so the refresh() that follows starts from the same
   store as after one destroy(). *)
C8_IdempotentDestroy ==
    [][\A h \in handles :
          (/\ DestroyStep(h) /\ isAlive(h)
           /\ SlotsOf(h.id) # {}
           /\ \A s \in SlotsOf(h.id) : ~atoms[s].alive)
          => store' = store]_vars

\* destroy() was called through a valid Handle of an entity that an earlier
\* update() had already marked dead
C8_Witness ==
    /\ pc = "idle" /\ op.name = "destroy" /\ isAlive(op.h)
    /\ \E s \in SlotsOf(op.h.id) : ~atoms[s].alive /\ atoms[s].data.health <= 0

(* C9: destruction is deferred.  destroy() through a valid Handle leaves the
   Handle valid, changes no mark, no size, no payload and no markIdx, and
   changes no alive flag but that of the Handle's own entity; update() (where
   payloads mark themselves dead) changes no mark, invalidates no Handle and
   destructs no payload; and between operations every entity whose atom is
   dead but not yet reclaimed still has its payload and a valid Handle. *)
C9_DeferredDestruction ==
    /\ [](pc = "idle" =>
            \A h \in handles :
               (\E s \in SlotsOf(h.id) : ~atoms[s].alive) => isAlive(h))
    /\ [][/\ \A h \in handles :
                (DestroyStep(h) /\ isAlive(h)) =>
                   /\ isAlive(h)'
                   /\ marks' = marks /\ size' = size /\ sizeNext' = sizeNext
                   /\ \A s \in DOMAIN atoms :
                         /\ atoms'[s].data = atoms[s].data
                         /\ atoms'[s].markIdx = atoms[s].markIdx
                         /\ atoms'[s].alive # atoms[s].alive => s \in SlotsOf(h.id)
          /\ UpdateStep =>
                /\ marks' = marks
                /\ \A h \in handles : isAlive(h) => isAlive(h)'
                /\ \A s \in DOMAIN atoms :
                      Built(atoms[s]) => atoms'[s].data.id = atoms[s].data.id
         ]_vars

\* one entity marked dead by destroy() and one that marked itself dead in
\* update(), both before refresh(): their Handles are valid
C9_Witness ==
    /\ pc = "idle"
    /\ \E h, g \in handles :
          /\ isAlive(h) /\ isAlive(g)
          /\ \E s \in SlotsOf(h.id) : ~atoms[s].alive /\ atoms[s].data.health > 0
          /\ \E s \in SlotsOf(g.id) : ~atoms[s].alive /\ atoms[s].data.health <= 0

\* the marks of the atoms refresh() found dead in [0, old sizeNext)
PreDeadMarks ==
    {pre.atoms[s].markIdx : s \in {t \in 0 .. (pre.sizeNext - 1) : ~pre.atoms[t].alive}}

\* b = a + 1 for two ints (INT_MAX has no successor among the ints)
IsSuccessor(a, b) == a # IntMax /\ b = a + 1

(* C10: generation monotonicity.  No step decreases a mark's control
   counter, and when refresh() has returned the counter of the mark of each
   atom it found dead is exactly 1 more than when it started and every other
   mark's counter is what it was. *)
C10_GenerationMonotonic ==
    /\ [][\A m \in DOMAIN marks :
             ~marks[m].ctrIndet => marks'[m].ctr >= marks[m].ctr]_vars
    /\ [](Refreshed =>
            \A m \in DOMAIN marks :
               IF m \in PreDeadMarks
               THEN IsSuccessor(pre.marks[m].ctr, marks[m].ctr)
               ELSE marks[m] = pre.marks[m])

----------------------------------------------------------------------------
\* a step that is one whole call of h.isAlive()
IsAliveStep == pc = "idle" /\ pc' = "idle" /\ op'.name = "isAlive"

\* a step that is one whole call of create(), destroy(), update(),
\* isAlive() or a dereference, i.e. any call but refresh()
NonRefreshStep == pc = "idle" /\ pc' # "findDead"

(* C11: refresh() is the only operation that changes a control counter:
   a call of create(), destroy(), update() or isAlive() leaves the counter
   of every mark unchanged (a counter that was never written keeps whatever
   value it turns out to hold), and a call of isAlive() leaves atoms, marks,
   size and sizeNext unchanged. *)
C11_OnlyRefreshChangesCounters ==
    [][/\ NonRefreshStep =>
             \A m \in DOMAIN marks :
                ~marks[m].ctrIndet =>
                    marks'[m].ctr = marks[m].ctr /\ ~marks'[m].ctrIndet
       /\ IsAliveStep => store' = store /\ handles' = handles]_vars

\* isAlive() has answered false for a handle whose mark refresh() has
\* incremented, and the counter is still the incremented one
C11_Witness ==
    /\ pc = "idle"
    /\ op.name = "isAlive"
    /\ ~isAlive(op.h)
    /\ ~marks[op.h.markIdx].ctrIndet
    /\ IsSuccessor(op.h.ctr, marks[op.h.markIdx].ctr)

----------------------------------------------------------------------------
\* the handles create() returned earlier that name the mark of the handle
\* the last create() returned
SameMarkAsNew == {h \in handles : h # op.h /\ h.markIdx = op.h.markIdx}

(* C12: slot reuse does not revive stale handles: when create() has just
   returned a handle for an entity constructed in a slot a reclaimed entity
   used before, the new handle is valid and every older handle with the
   same markIdx is invalid. *)
C12_ReuseDoesNotRevive ==
    (pc = "idle" /\ op.name = "create") =>
        /\ isAlive(op.h)
        /\ \A h \in SameMarkAsNew : ~isAlive(h)

\* create() has reused the slot and the mark of an entity that was
\* destroyed and reclaimed
C12_Witness ==
    /\ pc = "idle"
    /\ op.name = "create"
    /\ SameMarkAsNew # {}
    /\ \A h \in SameMarkAsNew : SlotsOf(h.id) = {}
    /\ atoms[getAtomFromMark(marks[op.h.markIdx])].data.id = op.h.id

----------------------------------------------------------------------------
\* refresh() has just returned and had started with every created entity in
\* the active range
ScenarioRefreshed ==
    Refreshed /\ nextId > 0 /\ pre.size = nextId /\ pre.sizeNext = nextId

\* the handles of the entities that were destroyed when refresh() started
DestroyedHandles == {h \in handles : h.id \in PreDead}

(* C13: after n entities are created and made active by refresh(), and a
   subset D of them is destroyed through its handles, the next refresh()
   leaves isAlive() false exactly for the handles of D and true for all
   others, and size = n - |D|. *)
C13_RefreshAfterDestroy ==
    ScenarioRefreshed =>
        /\ \A h \in handles : isAlive(h) <=> h \notin DestroyedHandles
        /\ Cardinality(handles) = nextId
        /\ size = nextId - Cardinality(DestroyedHandles)

\* the case of main(): three entities, the third destroyed, size 2
C13_Witness ==
    /\ ScenarioRefreshed
    /\ nextId = 3
    /\ {h.id : h \in DestroyedHandles} = {2}
    /\ size = 2
    /\ \E h \in handles : h.id = 2 /\ ~isAlive(h)

----------------------------------------------------------------------------
\* in the store st, entities e0..e4 are at positions 0..4 in the order of
\* their creation, and exactly e1 and e3 are marked dead
FiveWithTwoDead(st) ==
    /\ st.size = 5
    /\ st.sizeNext = 5
    /\ \A s \in 0 .. 4 : st.atoms[s].data.id = s
    /\ {s \in 0 .. 4 : ~st.atoms[s].alive} = {1, 3}

\* the store as a record, to compare it with the snapshot pre
Now == [atoms |-> atoms, marks |-> marks, size |-> size, sizeNext |-> sizeNext]

(* C14: with five entities e0..e4 in the active range of which e1 and e3
   are marked dead, update() runs the payload update of all five (the dead
   ones included), and the refresh() that follows leaves exactly three alive
   entities, at positions 0..2 in the order e0, e4, e2. *)
C14_FiveEntitiesTwoDead ==
    /\ (pc = "idle" /\ op.name = "update" /\ FiveWithTwoDead(Now)) =>
           \A s \in 0 .. 4 :
              /\ atoms[s].data.health = HealthBase - 1
              /\ \E k \in DOMAIN updated : updated[k] = s
    /\ (Refreshed /\ FiveWithTwoDead(pre)
          /\ \A s \in 0 .. 4 : pre.atoms[s].data.health = HealthBase - 1) =>
           /\ size = 3
           /\ sizeNext = 3
           /\ <<atoms[0].data.id, atoms[1].data.id, atoms[2].data.id>> = <<0, 4, 2>>
           /\ {s \in DOMAIN atoms : atoms[s].alive} = {0, 1, 2}

\* update() ran on the five entities after e1 and e3 were destroyed, and
\* refresh() has compacted them
C14_Witness ==
    /\ Refreshed
    /\ FiveWithTwoDead(pre)
    /\ \A s \in 0 .. 4 : pre.atoms[s].data.health = HealthBase - 1
    /\ size = 3

----------------------------------------------------------------------------
(* C15: create() constructs the payload in the atom at position sizeNext
   (its value when create() is called), sets that atom's alive flag, sets
   the atomIdx of that atom's mark to that position, increments sizeNext
   and leaves size unchanged; the handle it returns carries that atom's
   markIdx and the mark's current counter, so that isAlive() is true as
   soon as create() returns. *)
C15_CreateEffect ==
    [][CreateStep =>
          LET at == sizeNext
              h  == op'.h
              m  == atoms'[at].markIdx
          IN  /\ atoms'[at].data.id = nextId
              /\ Built(atoms'[at])
              /\ atoms'[at].alive
              /\ marks'[m].atomIdx = at
              /\ sizeNext' = sizeNext + 1
              /\ size' = size
              /\ h.markIdx = m
              /\ h.ctr = marks'[m].ctr
              /\ (m \in DOMAIN marks /\ ~marks[m].ctrIndet) => h.ctr = marks[m].ctr
              /\ at \in DOMAIN atoms => m = atoms[at].markIdx
              /\ handles' = handles \cup {h}]_vars

\* create() has placed an entity behind the active range, in an atom whose
\* mark has a counter other than 0, and its handle is valid
C15_Witness ==
    /\ pc = "idle"
    /\ op.name = "create"
    /\ size = 1
    /\ sizeNext = 2
    /\ atoms[1].data.id = op.h.id
    /\ marks[op.h.markIdx].ctr # 0
    /\ isAlive(op.h)

----------------------------------------------------------------------------
(* C16: create() grows the capacity by exactly GrowAmount (10) if and only
   if sizeNext equals the capacity when it is called; growth appends atoms
   and marks that refer to one another by their own index (the atom then
   used by the create() aside, they hold no entity and are not alive) and
   leaves every existing atom and mark unchanged; and no step of any
   operation lowers the capacity. *)
C16_CapacityGrowth ==
    [][LET cap  == getCapacity
           capN == Cardinality(DOMAIN atoms')
       IN  /\ capN >= cap
           /\ DOMAIN atoms' = 0 .. (capN - 1)
           /\ DOMAIN marks' = DOMAIN atoms'
           /\ capN # cap => CreateStep
           /\ CreateStep =>
                 /\ capN = cap + GrowAmount <=> sizeNext = cap
                 /\ capN = cap \/ capN = cap + GrowAmount
                 /\ \A i \in cap .. (capN - 1) :
                       /\ atoms'[i].markIdx = i
                       /\ marks'[i].atomIdx = i
                       /\ i # sizeNext => atoms'[i] = Atom(i) /\ marks'[i] = Mark(i)
                 /\ capN # cap =>
                       \A i \in 0 .. (cap - 1) :
                          atoms'[i] = atoms[i] /\ marks'[i] = marks[i]]_vars

\* growBy has run a second time: the store was full with GrowAmount
\* entities when create() was called
C16_Witness ==
    /\ pc = "idle"
    /\ op.name = "create"
    /\ getCapacity = 2 * GrowAmount
    /\ sizeNext = GrowAmount + 1
    /\ \A i \in 0 .. GrowAmount : Built(atoms[i])

----------------------------------------------------------------------------
(* C17: dereferencing a handle whose isAlive() is false ends in an
   assertion failure and returns nothing, and dereferencing a handle whose
   isAlive() is true returns without an assertion failure: a dereference
   that has returned was made through a valid handle, and a run that ended
   in the assertion ended in a dereference through an invalid handle. *)
C17_CheckedDereference ==
    /\ (pc = "idle" /\ op.name = "deref") => isAlive(op.h)
    /\ pc = "aborted" => (op.name = "deref" /\ ~isAlive(op.h))

\* the assertion has stopped a dereference through a stale handle whose
\* mark now leads to the payload of another entity
C17_Witness ==
    /\ pc = "aborted"
    /\ ~isAlive(op.h)
    /\ Built(atoms[getAtomFromMark(marks[op.h.markIdx])])
    /\ atoms[getAtomFromMark(marks[op.h.markIdx])].data.id # op.h.id

----------------------------------------------------------------------------
\* a step that is one whole call of update() or of destroy()
UpdateOrDestroyStep ==
    pc = "idle" /\ pc' = "idle" /\ op'.name \in {"update", "destroy"}

(* C18: update() and destroy() never change the storage layout: they leave
   size, sizeNext, the capacity, every atom's markIdx, every mark's atomIdx
   and the position of every payload unchanged, and the only change they
   can make to an alive flag is from true to false. *)
C18_LayoutFrame ==
    [][UpdateOrDestroyStep =>
          /\ size' = size
          /\ sizeNext' = sizeNext
          /\ DOMAIN atoms' = DOMAIN atoms
          /\ DOMAIN marks' = DOMAIN marks
          /\ \A m \in DOMAIN marks : marks'[m].atomIdx = marks[m].atomIdx
          /\ \A s \in DOMAIN atoms :
                /\ atoms'[s].markIdx = atoms[s].markIdx
                /\ atoms'[s].data.id = atoms[s].data.id
                /\ atoms'[s].alive => atoms[s].alive]_vars

\* update() has marked dead an entity whose health ran out, while
\* sizeNext is ahead of size
C18_Witness ==
    /\ pc = "idle"
    /\ op.name = "update"
    /\ size < sizeNext
    /\ \E s \in DOMAIN atoms :
          Built(atoms[s]) /\ ~atoms[s].alive /\ atoms[s].data.health = 0

----------------------------------------------------------------------------
\* the positions, when refresh() started, of the entities created since
\* the refresh() before it and still alive
PendingAlive ==
    {s \in pre.size .. (pre.sizeNext - 1) : pre.atoms[s].alive}

\* the entity with this id is alive in the active range, and every handle
\* create() returned for it is valid and leads to it
ActiveAndReachable(id) ==
    \E t \in 0 .. (size - 1) :
       /\ atoms[t].data.id = id
       /\ atoms[t].alive
       /\ \A h \in handles :
             h.id = id => isAlive(h) /\ getAtomFromMark(marks[h.markIdx]) = t

(* C19: every entity that was created since the previous refresh() and is
   still alive when refresh() starts lies in the active range [0, size)
   when refresh() has returned, and its handle is still valid. *)
C19_PendingJoinActive ==
    Refreshed => \A s \in PendingAlive : ActiveAndReachable(pre.atoms[s].data.id)

\* refresh() has moved a pending entity into the place of a dead one
C19_Witness ==
    /\ Refreshed
    /\ \E s \in PendingAlive :
          /\ atoms[s].data.id # pre.atoms[s].data.id
          /\ ActiveAndReachable(pre.atoms[s].data.id)

----------------------------------------------------------------------------
\* refresh() is running
InRefresh == pc \in {"findDead", "findAlive", "swap", "finish", "deinit"}

\* a number that every step of refresh() lowers and that is never negative:
\* the steps the scans can still take, then the steps of the reclaiming loop
RefreshRank ==
    CASE pc = "findDead"  -> intSizeNext + 3 + 3 * (iA - iD + 2) + 2
      [] pc = "findAlive" -> intSizeNext + 3 + 3 * (iA - iD + 2) + 1
      [] pc = "swap"      -> intSizeNext + 3 + 3 * (iA - iD + 2)
      [] pc = "finish"    -> intSizeNext + 2
      [] pc = "deinit"    -> intSizeNext - iD + 1
      [] OTHER            -> 0

(* C20: refresh() terminates from every reachable state: while it runs, iD
   never decreases and iA never increases, iD stays within [0, sizeNext] and
   iA within [-1, sizeNext - 1] (sizeNext as it was when refresh() started),
   the scans stop as soon as the pointers meet or cross, every step is
   followed by another until refresh() returns and lowers a rank that is
   never negative, and when the scans stop every position in [0, iD) is
   alive and every position in [iD, old sizeNext) is dead. *)
C20_RefreshTerminates ==
    /\ [](InRefresh =>
             /\ iD \in 0 .. intSizeNext
             /\ iA \in -1 .. (intSizeNext - 1)
             /\ RefreshRank >= 0
             /\ ENABLED Refresh)
    /\ [](/\ pc = "findDead" => iD <= iA + 1
          /\ pc = "findAlive" => iD <= iA
          /\ pc = "swap" => iD < iA
          /\ pc = "finish" => (iA <= iD /\ iD <= iA + 1))
    /\ [](pc = "finish" =>
             /\ \A s \in 0 .. (iD - 1) : atoms[s].alive
             /\ \A s \in iD .. (intSizeNext - 1) : ~atoms[s].alive)
    /\ [][InRefresh =>
             /\ RefreshRank' < RefreshRank
             /\ pc' # "idle" => (iD' >= iD /\ iA' <= iA)]_vars

\* the scans have stopped after a swap, with the pointers crossed
C20_Witness ==
    /\ pc = "finish"
    /\ iD = iA + 1
    /\ iD > 0
    /\ iD < intSizeNext
    /\ \E s \in 0 .. (iD - 1) : atoms[s].data.id # pre.atoms[s].data.id

----------------------------------------------------------------------------
\* the first refresh() of the loop of main() has just returned (it is the
\* only one that starts with all three entities in the active range)
FirstIterationDone == Refreshed /\ pre.size = MainEntities

\* the entity with this id has run out of health
HealthGone(id) == \E s \in SlotsOf(id) : atoms[s].data.health <= 0

(* C21: in main(), with every entity's health a positive integer that each
   update() decrements and self-destruction at health <= 0, the loop exits:
   eventually h1, h2 and h3 are all invalid and stay so.  h3 is valid when
   the loop is entered and invalid when its first iteration is over, and h1
   and h2 lose validity only in a step before which their own entity's
   health is <= 0. *)
C21_MainLoopExits ==
    /\ <>[]MainDone
    /\ [](FirstIterationDone =>
             \A h \in handles :
                h.id = MainEntities - 1 => (PreValid(h) /\ ~isAlive(h)))
    /\ [][\A h \in handles :
             (h.id < MainEntities - 1 /\ isAlive(h) /\ ~isAlive(h)') =>
                HealthGone(h.id)]_vars

\* main() is past its loop with all three handles invalid
C21_Witness ==
    /\ MainDone
    /\ Cardinality(handles) = MainEntities
    /\ \A s \in DOMAIN atoms : ~Built(atoms[s])

----------------------------------------------------------------------------
\* the mark m has been created by growBy and its counter was never read
\* nor written since (as a step's first state sees it; a mark the step
\* itself creates is fresh too)
FreshMark(m) == m \notin DOMAIN marks \/ marks[m].ctrIndet

(* C22: initial state of storage.  The atoms and marks that growBy creates
   refer to one another's own index (atom i has markIdx i, mark i has
   atomIdx i), every such atom is not alive, and every such mark's control
   counter is 0: the first create() that uses a mark growBy created reads
   0 from its counter. *)
C22_InitialStorage ==
    [][CreateStep =>
          /\ \A i \in DOMAIN atoms' \ DOMAIN atoms :
                /\ atoms'[i].markIdx = i
                /\ marks'[i].atomIdx = i
                /\ i # sizeNext => (~atoms'[i].alive /\ ~Built(atoms'[i]))
          /\ FreshMark(op'.h.markIdx) =>
                (op'.h.ctr = 0 /\ marks'[op'.h.markIdx].ctr = 0)]_vars

----------------------------------------------------------------------------
(* C23, as stated: during refresh(), whenever low (iD) <= high (iA) the
   slots at low and high are swapped, also when the pointers are equal: the
   scan from the right, which starts with low on a dead slot and
   low <= high, ends in a swap and never in the exit of the loop. *)
C23_SwapWheneverNotCrossed ==
    [][(pc = "findAlive" /\ iD <= iA /\ pc' # "findAlive") => pc' = "swap"]_vars

(* C23, amended: a swap takes place exactly when the left scan has stopped
   on a dead slot at low, the right scan on an alive slot at high, and
   low < high, adjacent pointers included; it exchanges the two atoms and
   moves both pointers by one.  When the pointers are equal nothing is
   swapped: the loop is left and the atoms are as they were. *)
C23_SwapOnlyWhenApart ==
    /\ [](pc = "swap" => (iD < iA /\ ~atoms[iD].alive /\ atoms[iA].alive))
    /\ [][/\ pc = "swap" =>
                /\ atoms'[iD] = atoms[iA]
                /\ atoms'[iA] = atoms[iD]
                /\ \A s \in DOMAIN atoms \ {iD, iA} : atoms'[s] = atoms[s]
                /\ iD' = iD + 1
                /\ iA' = iA - 1
          /\ (pc = "findAlive" /\ iD < iA /\ atoms[iA].alive) => pc' = "swap"
          /\ (pc = "findAlive" /\ iD = iA) =>
                (pc' = "finish" /\ atoms' = atoms /\ marks' = marks)
          /\ (InRefresh /\ pc # "swap" /\ pc # "deinit") => atoms' = atoms]_vars

\* the scans have stopped on two adjacent positions, which are about to be
\* swapped
C23_Witness ==
    /\ pc = "swap"
    /\ iA = iD + 1
    /\ ~atoms[iD].alive
    /\ atoms[iA].alive

----------------------------------------------------------------------------
\* a step that is one whole call of create() left by an exception
CreateThrowsStep == pc = "idle" /\ pc' = "idle" /\ op'.name = "createThrows"

(* C24: capacity growth is all-or-nothing: when an allocation fails while
   create() grows the storage, the call is left by the exception and the
   store is as it was: atoms and marks unchanged and of equal length, size
   and sizeNext unchanged, no payload constructed and no handle made. *)
C24_GrowthAllOrNothing ==
    [][CreateThrowsStep =>
          /\ atoms' = atoms
          /\ marks' = marks
          /\ DOMAIN atoms' = DOMAIN marks'
          /\ size' = size
          /\ sizeNext' = sizeNext
          /\ handles' = handles
          /\ nextId' = nextId]_vars

\* create() has failed to grow a store that is full with GrowAmount
\* entities
C24_Witness ==
    /\ pc = "idle"
    /\ op.name = "createThrows"
    /\ getCapacity = GrowAmount
    /\ sizeNext = GrowAmount
    /\ \A s \in DOMAIN atoms : Built(atoms[s])

----------------------------------------------------------------------------
\* the atom at position s and its mark refer to one another
Linked(s) == marks[atoms[s].markIdx].atomIdx = s

(* C25: occupied-range link invariant: between operations, for every
   position s < sizeNext (every entity created and not yet reclaimed),
   marks[atoms[s].markIdx].atomIdx = s. *)
C25_OccupiedRangeLinked ==
    pc = "idle" => \A s \in 0 .. (sizeNext - 1) : Linked(s)

\* after a refresh() that swapped: the occupied range is linked although the
\* reclaimed atom behind it is not
C25_Witness ==
    /\ Refreshed
    /\ sizeNext > 0
    /\ \A s \in 0 .. (sizeNext - 1) : Linked(s)
    /\ \E s \in DOMAIN atoms : s >= sizeNext /\ ~Linked(s)

----------------------------------------------------------------------------
\* the markIdx values of all atoms
MarkIdxOfAtoms == {atoms[s].markIdx : s \in DOMAIN atoms}

(* C26: mark uniqueness: in every state the markIdx values of the atoms over
   [0, capacity) are a permutation of [0, capacity): no two atoms have the
   same markIdx and every index is the markIdx of some atom.  Hence two
   entities that are both unreclaimed never share a mark, and between
   operations two valid handles returned by different create() calls never
   have the same markIdx. *)
C26_MarkUniqueness ==
    /\ MarkIdxOfAtoms = DOMAIN atoms
    /\ DOMAIN atoms = 0 .. (getCapacity - 1)
    /\ \A s, t \in DOMAIN atoms :
          atoms[s].markIdx = atoms[t].markIdx => s = t
    /\ pc = "idle" =>
          \A h, g \in handles :
             (h.id # g.id /\ isAlive(h) /\ isAlive(g)) => h.markIdx # g.markIdx

\* refresh() has exchanged the atoms at positions 0 and 1, so that the
\* permutation is not the identity; the entity moved to position 0 has a
\* valid handle and the reclaimed one an invalid handle, with different
\* marks
C26_Witness ==
    /\ Refreshed
    /\ getCapacity > 1
    /\ atoms[0].markIdx = 1
    /\ atoms[1].markIdx = 0
    /\ \E h, g \in handles :
          /\ isAlive(h) /\ h.markIdx = 1
          /\ ~isAlive(g) /\ g.markIdx = 0

----------------------------------------------------------------------------
(* C27: size bounds: in every state 0 <= size <= sizeNext <= capacity,
   atoms and marks have the same length, the capacity is a multiple of
   GrowAmount (10), and size = sizeNext when refresh() has just returned. *)
C27_SizeBounds ==
    /\ 0 <= size
    /\ size <= sizeNext
    /\ sizeNext <= getCapacity
    /\ DOMAIN atoms = DOMAIN marks
    /\ Cardinality(DOMAIN marks) = getCapacity
    /\ getCapacity % GrowAmount = 0
    /\ Refreshed => size = sizeNext

\* the capacity has grown twice, the store is full, and an entity created
\* since the last refresh() is behind the active range
C27_Witness ==
    /\ pc = "idle"
    /\ getCapacity = 2 * GrowAmount
    /\ 0 < size
    /\ size < sizeNext
    /\ sizeNext > GrowAmount

----------------------------------------------------------------------------
\* the refresh() that is running, or has just returned, was called right
\* after a refresh() returned, with no operation in between
SecondRefresh == pre.again

(* C28: refresh() is idempotent: a refresh() called right after a refresh()
   swaps nothing, changes no counter, destructs no payload and leaves size
   and sizeNext as they are, so that the store after the second call is the
   store after the first. *)
C28_RefreshIdempotent ==
    /\ []((Refreshed /\ SecondRefresh) => store = <<pre.atoms, pre.marks, pre.size, pre.sizeNext>>)
    /\ [][(InRefresh /\ SecondRefresh) =>
             /\ atoms' = atoms
             /\ marks' = marks
             /\ pc' # "swap"
             /\ pc = "deinit" => (pc' = "idle" /\ size' = pre.size /\ sizeNext' = pre.sizeNext)
          ]_vars

\* a second refresh() in a row has returned on a store that holds an
\* entity and has reclaimed another
C28_Witness ==
    /\ Refreshed
    /\ SecondRefresh
    /\ size > 0
    /\ \E h \in handles : ~isAlive(h)

----------------------------------------------------------------------------
\* the position destroy() reaches from the handle h
ReachedFrom(h) == getAtomFromMark(marks[h.markIdx])

(* C29: destroy() through a valid handle clears the alive flag of exactly
   the atom that holds the handle's own entity, and leaves the alive flag
   of every other atom as it was. *)
C29_DestroyOwnSlotOnly ==
    [][\A h \in handles :
          (DestroyStep(h) /\ isAlive(h)) =>
             /\ SlotsOf(h.id) = {ReachedFrom(h)}
             /\ ~atoms'[ReachedFrom(h)].alive
             /\ \A t \in DOMAIN atoms \ {ReachedFrom(h)} :
                   atoms'[t].alive = atoms[t].alive]_vars

\* destroy() has marked dead, through its valid handle, an entity that a
\* refresh() had moved away from the position its markIdx names
C29_Witness ==
    /\ pc = "idle"
    /\ op.name = "destroy"
    /\ isAlive(op.h)
    /\ ReachedFrom(op.h) # op.h.markIdx
    /\ SlotsOf(op.h.id) = {ReachedFrom(op.h)}
    /\ ~atoms[ReachedFrom(op.h)].alive

----------------------------------------------------------------------------
\* the ids of the payloads create() has constructed so far
Created == 0 .. (nextId - 1)

\* a step of the reclaiming loop of refresh() that destructs atoms[iD]
DeinitStep == pc = "deinit" /\ iD < intSizeNext

(* C30: payload lifetime safety.  Between operations an atom holds a
   constructed payload if and only if its position is < sizeNext; in every
   state every atom at a position >= sizeNext is not alive and no payload
   is held by two atoms; create() constructs only in an atom that holds no
   payload; refresh() destructs only atoms that hold one; and a payload
   that has been destructed is held by no atom ever after, so that each
   payload is destructed at most once. *)
C30_PayloadLifetime ==
    /\ [](pc = "idle" =>
             \A s \in DOMAIN atoms : Built(atoms[s]) <=> s < sizeNext)
    /\ [](\A s \in DOMAIN atoms : s >= sizeNext => ~atoms[s].alive)
    /\ [](\A id \in Created : Cardinality(SlotsOf(id)) <= 1)
    /\ [][/\ CreateStep =>
                (sizeNext \in DOMAIN atoms => ~Built(atoms[sizeNext]))
          /\ DeinitStep =>
                /\ Built(atoms[iD])
                /\ atoms[iD].data.id \in Created
                /\ \A id \in Created :
                       id = atoms[iD].data.id => SlotsOf(id)' = {}
          /\ \A id \in Created : SlotsOf(id) = {} => SlotsOf(id)' = {}
         ]_vars

\* create() has constructed a payload in the atom from which refresh() had
\* destructed the payload of a reclaimed entity
C30_Witness ==
    /\ pc = "idle"
    /\ op.name = "create"
    /\ \E id \in Created : SlotsOf(id) = {}
    /\ \E h \in handles : ~isAlive(h) /\ h.markIdx = op.h.markIdx
    /\ Built(atoms[sizeNext - 1])

====
